---- MODULE Spec2Model ----
(***************************************************************************)
(* Model of the surfing crate: the JSONParser boundary extractor           *)
(* (src/src/parser), and the StreamingDeserializer built on it             *)
(* (src/src/serde/streaming_deserializer.rs).                              *)
(*                                                                         *)
(* Characters are one-character strings; a Rust String / &str is a         *)
(* sequence of characters.                                                 *)
(***************************************************************************)
EXTENDS Integers, Sequences, FiniteSets, TLC

\* Longest total input delivered to a standalone JSONParser.
MaxLen == 5

\* Most calls of extract_json_from_stream counted on one JSONParser.
MaxCalls == 3

\* Longest total input delivered to a StreamingDeserializer between resets.
MaxFed == 4

\* Longest total input given to a JSONParser whose calls are recorded.
MaxIn == 4

\* Longest input of one extract_json_to_string call.
MaxStr == 3

\* Longest total input with string literals delivered between resets.
MaxQuoted == 5

\* The characters inputs are drawn from: the four structural characters and
\* one character that is none of them (a digit, so that it can also be JSON
\* content inside an array).
Chars == {"{", "}", "[", "]", "1"}

\* All strings over the alphabet A of length lo..hi.
StringsOver(A, lo, hi) == UNION {[1..n -> A] : n \in lo..hi}

\* All strings over Chars of length lo..hi.
Strings(lo, hi) == StringsOver(Chars, lo, hi)

\* The alphabet of the inputs with string literals: brackets, an opening
\* brace and the quote.
QChars == {"[", "]", "{", "\""}

(***************************************************************************)
(* src/src/constants.rs                                                    *)
(***************************************************************************)
MARKERS == <<"{", "[">>

PAIRED_MARKERS == <<"{", "}", "[", "]">>

Contains(seq, c) == \E i \in 1..Len(seq) : seq[i] = c

(***************************************************************************)
(* src/src/parser/marker.rs                                                *)
(***************************************************************************)
\* Option<Marker>::None
NoMarker == [some |-> FALSE, expected_counterpart |-> ""]

SomeMarker(c) == [some |-> TRUE, expected_counterpart |-> c]

\* A faulty variant of Marker_new: both openers get the object closer.
Marker_new_same_closer(marker) ==
    IF Contains(MARKERS, marker) THEN SomeMarker("}") ELSE NoMarker

\* A faulty variant of Marker_new: the closers give markers too.
Marker_new_closers_too(marker) ==
    IF Contains(PAIRED_MARKERS, marker)
    THEN IF marker = "{" \/ marker = "}" THEN SomeMarker("}") ELSE SomeMarker("]")
    ELSE NoMarker

\* Marker::new: the first element of MARKERS equal to the character decides.
Marker_new(marker) ==
    IF Contains(MARKERS, marker)
    THEN IF marker = "{" THEN SomeMarker("}")
         ELSE IF marker = "[" THEN SomeMarker("]")
         ELSE NoMarker
    ELSE NoMarker

\* Marker::is_counter_part
is_counter_part(m, marker) == m.expected_counterpart = marker

(***************************************************************************)
(* src/src/parser/json_parser.rs                                           *)
(* A JSONParser is [buffer, markers]; markers holds each open marker's     *)
(* expected_counterpart, the last element being the top of the Vec.        *)
(***************************************************************************)
JSONParser_new == [buffer |-> <<>>, markers |-> <<>>]

is_in_json(p) == p.markers # <<>>

\* Vec::pop on the markers.
PopMarker(p) == [p EXCEPT !.markers = SubSeq(@, 1, Len(@) - 1)]

\* A faulty variant of remove_markers_pair: a matching closer empties the stack.
remove_markers_pair_clear(p, item) ==
    IF \E i \in 1..Len(p.markers) : is_counter_part(SomeMarker(p.markers[i]), item)
    THEN [p EXCEPT !.markers = <<>>]
    ELSE p

\* A faulty variant of remove_markers_pair: a closer pops the top of the
\* stack whether or not a marker matches it.
remove_markers_pair_any_closer(p, item) ==
    IF Contains(<<"}", "]">>, item) /\ p.markers # <<>>
    THEN PopMarker(p)
    ELSE p

\* A faulty variant of remove_markers_pair: the oldest marker is removed.
remove_markers_pair_oldest(p, item) ==
    IF \E i \in 1..Len(p.markers) : is_counter_part(SomeMarker(p.markers[i]), item)
    THEN [p EXCEPT !.markers = Tail(@)]
    ELSE p

\* A variant of remove_markers_pair that removes the marker it found, the
\* matching one nearest the top, instead of the top.
remove_markers_pair_found(p, item) ==
    IF \E i \in 1..Len(p.markers) : is_counter_part(SomeMarker(p.markers[i]), item)
    THEN LET i == CHOOSE i \in 1..Len(p.markers) :
                      /\ is_counter_part(SomeMarker(p.markers[i]), item)
                      /\ \A j \in (i + 1)..Len(p.markers) :
                             ~is_counter_part(SomeMarker(p.markers[j]), item)
         IN  [p EXCEPT !.markers = SubSeq(@, 1, i - 1) \o SubSeq(@, i + 1, Len(@))]
    ELSE p

\* A faulty variant of remove_markers_pair: a quote closes whatever is on
\* top of the stack.
remove_markers_pair_quote(p, item) ==
    IF item = "\"" /\ p.markers # <<>>
    THEN PopMarker(p)
    ELSE IF \E i \in 1..Len(p.markers) : is_counter_part(SomeMarker(p.markers[i]), item)
         THEN PopMarker(p)
         ELSE p

\* The loop searches the whole (reversed) stack for any marker whose
\* counterpart is item; on the first hit it pops the top of the stack.
remove_markers_pair(p, item) ==
    IF \E i \in 1..Len(p.markers) : is_counter_part(SomeMarker(p.markers[i]), item)
    THEN PopMarker(p)
    ELSE p

\* A faulty variant of update_markers: an opener equal to the one on top of
\* the stack is not pushed again.
update_markers_push_once(p, item) ==
    IF Marker_new(item).some
    THEN IF p.markers # <<>>
            /\ p.markers[Len(p.markers)] = Marker_new(item).expected_counterpart
         THEN p
         ELSE [p EXCEPT !.markers = Append(@, Marker_new(item).expected_counterpart)]
    ELSE LET q == remove_markers_pair(p, item)
         IN  IF q.markers = <<>> THEN [q EXCEPT !.buffer = <<>>] ELSE q

\* A faulty variant of update_markers: the buffer is never cleared.
update_markers_no_clear(p, item) ==
    IF Marker_new(item).some
    THEN [p EXCEPT !.markers = Append(@, Marker_new(item).expected_counterpart)]
    ELSE remove_markers_pair(p, item)

update_markers(p, item) ==
    IF Marker_new(item).some
    THEN [p EXCEPT !.markers = Append(@, Marker_new(item).expected_counterpart)]
    ELSE LET q == remove_markers_pair(p, item)
         IN  IF q.markers = <<>> THEN [q EXCEPT !.buffer = <<>>] ELSE q

\* A faulty variant of ExtractChar: a character met while the parser is
\* closed is written whatever it is.
ExtractChar_write_all(st, item) ==
    IF is_in_json(st.parser) \/ Contains(PAIRED_MARKERS, item)
    THEN LET p == update_markers([st.parser EXCEPT !.buffer = Append(@, item)], item)
         IN  IF st.room = 0
             THEN [st EXCEPT !.parser = p, !.err = TRUE]
             ELSE [st EXCEPT !.parser = p,
                             !.writer = Append(@, item),
                             !.room = IF @ > 0 THEN @ - 1 ELSE @]
    ELSE [st EXCEPT !.writer = Append(@, item)]

\* A faulty variant of ExtractChar: an opener is written twice.
ExtractChar_double_opener(st, item) ==
    IF is_in_json(st.parser) \/ Contains(PAIRED_MARKERS, item)
    THEN LET p == update_markers([st.parser EXCEPT !.buffer = Append(@, item)], item)
         IN  IF st.room = 0
             THEN [st EXCEPT !.parser = p, !.err = TRUE]
             ELSE [st EXCEPT !.parser = p,
                             !.writer = IF Contains(MARKERS, item)
                                        THEN Append(Append(@, item), item)
                                        ELSE Append(@, item),
                             !.room = IF @ > 0 THEN @ - 1 ELSE @]
    ELSE st

\* A faulty variant of ExtractChar: the closer that empties the stack is
\* not written.
ExtractChar_drop_closing(st, item) ==
    IF is_in_json(st.parser) \/ Contains(PAIRED_MARKERS, item)
    THEN LET p == update_markers([st.parser EXCEPT !.buffer = Append(@, item)], item)
         IN  IF st.room = 0
             THEN [st EXCEPT !.parser = p, !.err = TRUE]
             ELSE IF is_in_json(st.parser) /\ ~is_in_json(p)
             THEN [st EXCEPT !.parser = p]
             ELSE [st EXCEPT !.parser = p,
                             !.writer = Append(@, item),
                             !.room = IF @ > 0 THEN @ - 1 ELSE @]
    ELSE st

\* A faulty variant of ExtractChar: a closer that does not match the top of
\* the stack is an error.
ExtractChar_strict(st, item) ==
    IF Contains(<<"}", "]">>, item)
       /\ (st.parser.markers = <<>> \/ st.parser.markers[Len(st.parser.markers)] # item)
    THEN [st EXCEPT !.err = TRUE]
    ELSE IF is_in_json(st.parser) \/ Contains(PAIRED_MARKERS, item)
    THEN LET p == update_markers([st.parser EXCEPT !.buffer = Append(@, item)], item)
         IN  IF st.room = 0
             THEN [st EXCEPT !.parser = p, !.err = TRUE]
             ELSE [st EXCEPT !.parser = p,
                             !.writer = Append(@, item),
                             !.room = IF @ > 0 THEN @ - 1 ELSE @]
    ELSE st

\* One iteration of the for loop of extract_json_from_stream, on
\* st = [parser, writer, room, err]: writer is what the writer has received,
\* room the number of characters it still accepts before its writes fail
\* (negative: its writes never fail, as for a Vec<u8>), err whether the call
\* has returned the error of a failed write.  The character is pushed and the
\* markers are updated before the write is attempted.
ExtractChar(st, item) ==
    IF is_in_json(st.parser) \/ Contains(PAIRED_MARKERS, item)
    THEN LET p == update_markers([st.parser EXCEPT !.buffer = Append(@, item)], item)
         IN  IF st.room = 0
             THEN [st EXCEPT !.parser = p, !.err = TRUE]
             ELSE [st EXCEPT !.parser = p,
                             !.writer = Append(@, item),
                             !.room = IF @ > 0 THEN @ - 1 ELSE @]
    ELSE st

\* The for loop; the ? operator leaves it at the first failed write.
RECURSIVE ExtractLoop(_, _, _)
ExtractLoop(st, json_object, i) ==
    IF i > Len(json_object) \/ st.err THEN st
    ELSE ExtractLoop(ExtractChar(st, json_object[i]), json_object, i + 1)

\* extract_json_from_stream(&mut self, writer, json_object) on a writer that
\* accepts room more characters: the parser and the writer after the call
\* and whether the call returned Err.
extract_json_from_stream_w(p, writer, room, json_object) ==
    ExtractLoop([parser |-> p, writer |-> writer, room |-> room, err |-> FALSE],
                json_object, 1)

\* A faulty variant of extract_json_from_stream: every call starts from an empty stack.
extract_json_from_stream_stateless(p, writer, json_object) ==
    extract_json_from_stream_w(JSONParser_new, writer, -1, json_object)

\* extract_json_from_stream(&mut self, writer, json_object) on a writer whose
\* writes never fail: the parser and the writer after the call.
extract_json_from_stream(p, writer, json_object) ==
    extract_json_from_stream_w(p, writer, -1, json_object)

(***************************************************************************)
(* serde_json::from_str::<T>, the decoder the deserializer calls, for      *)
(* T = serde_json::Value on texts over Chars.  Without commas, quotes and  *)
(* white space the JSON grammar leaves                                     *)
(*     value ::= number | "[" "]" | "[" value "]" | "{" "}"                *)
(*     number ::= "1"+                                                     *)
(* and the whole text must be one value: trailing characters are an error. *)
(* Over QChars there are also strings, without escapes:                   *)
(*     value ::= ... | quote character* quote                              *)
(* A value is [depth, leaf, n, text]: leaf inside depth one-element arrays,*)
(* leaf being the empty array, the empty object, the number n, or the      *)
(* string text.                                                            *)
(***************************************************************************)
NoValue == [depth |-> 0, leaf |-> "none", n |-> 0, text |-> <<>>]

ParseFail == [ok |-> FALSE, value |-> NoValue, next |-> 0]

\* The position after the digits that start at position i of s.
RECURSIVE NumberEnd(_, _)
NumberEnd(s, i) == IF i <= Len(s) /\ s[i] = "1" THEN NumberEnd(s, i + 1) ELSE i

\* The number written as k digits 1.
RECURSIVE Ones(_)
Ones(k) == IF k = 0 THEN 0 ELSE 10 * Ones(k - 1) + 1

\* The position of the first quote at or after position i of s, or
\* Len(s) + 1 when the string is not terminated.
RECURSIVE StringEnd(_, _)
StringEnd(s, i) == IF i <= Len(s) /\ s[i] # "\"" THEN StringEnd(s, i + 1) ELSE i

RECURSIVE ParseValue(_, _)
ParseValue(s, i) ==
    IF i > Len(s) THEN ParseFail
    ELSE IF s[i] = "1"
         THEN [ok |-> TRUE,
               value |-> [depth |-> 0, leaf |-> "num", n |-> Ones(NumberEnd(s, i) - i),
                         text |-> <<>>],
               next |-> NumberEnd(s, i)]
    ELSE IF s[i] = "["
         THEN IF i + 1 <= Len(s) /\ s[i + 1] = "]"
              THEN [ok |-> TRUE, value |-> [depth |-> 0, leaf |-> "arr", n |-> 0, text |-> <<>>], next |-> i + 2]
              ELSE LET r == ParseValue(s, i + 1)
                   IN  IF r.ok /\ r.next <= Len(s) /\ s[r.next] = "]"
                       THEN [ok |-> TRUE,
                             value |-> [r.value EXCEPT !.depth = @ + 1],
                             next |-> r.next + 1]
                       ELSE ParseFail
    ELSE IF s[i] = "{"
         THEN IF i + 1 <= Len(s) /\ s[i + 1] = "}"
              THEN [ok |-> TRUE, value |-> [depth |-> 0, leaf |-> "obj", n |-> 0, text |-> <<>>], next |-> i + 2]
              ELSE ParseFail
    ELSE IF s[i] = "\""
         THEN IF StringEnd(s, i + 1) <= Len(s)
              THEN [ok |-> TRUE,
                    value |-> [depth |-> 0, leaf |-> "str", n |-> 0,
                               text |-> SubSeq(s, i + 1, StringEnd(s, i + 1) - 1)],
                    next |-> StringEnd(s, i + 1) + 1]
              ELSE ParseFail
    ELSE ParseFail

\* serde_json::from_str: Ok(value) when the whole text is one value.
from_str(s) ==
    LET r == ParseValue(s, 1)
    IN  IF r.ok /\ r.next = Len(s) + 1
        THEN [ok |-> TRUE, value |-> r.value]
        ELSE [ok |-> FALSE, value |-> NoValue]

(***************************************************************************)
(* src/src/serde/streaming_deserializer.rs                                 *)
(* A StreamingDeserializer is [parser, accumulated_json].  An operation    *)
(* yields [deser, ret, decoded]: the deserializer after it, what it        *)
(* returned, and the texts it passed to serde_json::from_str (none or one).*)
(***************************************************************************)
\* What an operation returned: None / Some(value) of process_chunk,
\* Ok(None) / Ok(Some(value)) / Err(Deserialization) of finalize, () of reset.
Ret(kind, value) == [kind |-> kind, value |-> value]

StreamingDeserializer_new == [parser |-> JSONParser_new, accumulated_json |-> <<>>]

\* A faulty variant of process_chunk: a rejected text stays in the buffer.
process_chunk_keep_on_error(d, chunk) ==
    LET ex  == extract_json_from_stream(d.parser, <<>>, chunk)
        acc == d.accumulated_json \o ex.writer
    IN  IF ~is_in_json(ex.parser) /\ acc # <<>>
        THEN IF from_str(acc).ok
             THEN [deser |-> [parser |-> ex.parser, accumulated_json |-> <<>>],
                   ret |-> Ret("Some", from_str(acc).value),
                   decoded |-> <<acc>>]
             ELSE [deser |-> [parser |-> ex.parser, accumulated_json |-> acc],
                   ret |-> Ret("None", NoValue),
                   decoded |-> <<acc>>]
        ELSE [deser |-> [parser |-> ex.parser, accumulated_json |-> acc],
              ret |-> Ret("None", NoValue),
              decoded |-> <<>>]

\* A faulty variant of process_chunk: the text extracted by earlier calls is dropped.
process_chunk_no_accumulate(d, chunk) ==
    LET ex  == extract_json_from_stream(d.parser, <<>>, chunk)
        acc == ex.writer
    IN  IF ~is_in_json(ex.parser) /\ acc # <<>>
        THEN [deser |-> [parser |-> ex.parser, accumulated_json |-> <<>>],
              ret |-> IF from_str(acc).ok THEN Ret("Some", from_str(acc).value)
                      ELSE Ret("None", NoValue),
              decoded |-> <<acc>>]
        ELSE [deser |-> [parser |-> ex.parser, accumulated_json |-> acc],
              ret |-> Ret("None", NoValue),
              decoded |-> <<>>]

\* A faulty variant of process_chunk: the decoder is called whenever the
\* parser is closed, an empty buffer included.
process_chunk_decode_empty(d, chunk) ==
    LET ex  == extract_json_from_stream(d.parser, <<>>, chunk)
        acc == d.accumulated_json \o ex.writer
    IN  IF ~is_in_json(ex.parser)
        THEN [deser |-> [parser |-> ex.parser, accumulated_json |-> <<>>],
              ret |-> IF from_str(acc).ok THEN Ret("Some", from_str(acc).value)
                      ELSE Ret("None", NoValue),
              decoded |-> <<acc>>]
        ELSE [deser |-> [parser |-> ex.parser, accumulated_json |-> acc],
              ret |-> Ret("None", NoValue),
              decoded |-> <<>>]

\* process_chunk: the chunk goes through the parser into a new Vec (a writer
\* that cannot fail, and whose bytes are the UTF-8 of characters of the chunk),
\* the output is appended to accumulated_json, and the decision is taken once.
process_chunk(d, chunk) ==
    LET ex  == extract_json_from_stream(d.parser, <<>>, chunk)
        acc == d.accumulated_json \o ex.writer
    IN  IF ~is_in_json(ex.parser) /\ acc # <<>>
        THEN [deser |-> [parser |-> ex.parser, accumulated_json |-> <<>>],
              ret |-> IF from_str(acc).ok THEN Ret("Some", from_str(acc).value)
                      ELSE Ret("None", NoValue),
              decoded |-> <<acc>>]
        ELSE [deser |-> [parser |-> ex.parser, accumulated_json |-> acc],
              ret |-> Ret("None", NoValue),
              decoded |-> <<>>]

\* A faulty variant of reset: the buffer is cleared, the parser is kept.
reset_keep_parser(d) == [parser |-> d.parser, accumulated_json |-> <<>>]

reset(d) == [parser |-> JSONParser_new, accumulated_json |-> <<>>]

\* A faulty variant of finalize: the empty buffer is given to the decoder too.
finalize_no_empty_check(d) ==
    IF from_str(d.accumulated_json).ok
    THEN [deser |-> reset(d),
          ret |-> Ret("OkSome", from_str(d.accumulated_json).value),
          decoded |-> <<d.accumulated_json>>]
    ELSE [deser |-> d,
          ret |-> Ret("ErrDeserialization", NoValue),
          decoded |-> <<d.accumulated_json>>]

\* A faulty variant of finalize: a successful decode leaves the accumulator alone.
finalize_no_reset(d) ==
    IF d.accumulated_json = <<>>
    THEN [deser |-> d, ret |-> Ret("OkNone", NoValue), decoded |-> <<>>]
    ELSE IF from_str(d.accumulated_json).ok
         THEN [deser |-> d,
               ret |-> Ret("OkSome", from_str(d.accumulated_json).value),
               decoded |-> <<d.accumulated_json>>]
         ELSE [deser |-> d,
               ret |-> Ret("ErrDeserialization", NoValue),
               decoded |-> <<d.accumulated_json>>]

\* A faulty variant of finalize: a decode failure resets the accumulator.
finalize_reset_on_error(d) ==
    IF d.accumulated_json = <<>>
    THEN [deser |-> d, ret |-> Ret("OkNone", NoValue), decoded |-> <<>>]
    ELSE IF from_str(d.accumulated_json).ok
         THEN [deser |-> reset(d),
               ret |-> Ret("OkSome", from_str(d.accumulated_json).value),
               decoded |-> <<d.accumulated_json>>]
         ELSE [deser |-> reset(d),
               ret |-> Ret("ErrDeserialization", NoValue),
               decoded |-> <<d.accumulated_json>>]

\* A faulty variant of finalize: a decode failure is swallowed, as in process_chunk.
finalize_swallow(d) ==
    IF d.accumulated_json = <<>>
    THEN [deser |-> d, ret |-> Ret("OkNone", NoValue), decoded |-> <<>>]
    ELSE IF from_str(d.accumulated_json).ok
         THEN [deser |-> reset(d),
               ret |-> Ret("OkSome", from_str(d.accumulated_json).value),
               decoded |-> <<d.accumulated_json>>]
         ELSE [deser |-> d,
               ret |-> Ret("OkNone", NoValue),
               decoded |-> <<d.accumulated_json>>]

finalize(d) ==
    IF d.accumulated_json = <<>>
    THEN [deser |-> d, ret |-> Ret("OkNone", NoValue), decoded |-> <<>>]
    ELSE IF from_str(d.accumulated_json).ok
         THEN [deser |-> reset(d),
               ret |-> Ret("OkSome", from_str(d.accumulated_json).value),
               decoded |-> <<d.accumulated_json>>]
         ELSE [deser |-> d,
               ret |-> Ret("ErrDeserialization", NoValue),
               decoded |-> <<d.accumulated_json>>]

(***************************************************************************)
(* State                                                                   *)
(***************************************************************************)
VARIABLES
    fed,      \* every character given so far, in order; for the deserializer,
              \* since it was constructed or last reset (history)
    ncalls,   \* calls of extract_json_from_stream made on parser so far (history)
    cutOpen,  \* some call received characters while the parser was open (history)
    parser,   \* a standalone JSONParser
    sink,     \* everything the standalone parser's writer received
    deser,    \* a StreamingDeserializer
    last,     \* the last operation on deser: its name, its result and the
              \* texts it passed to the decoder (history)
    prev,     \* the operation on deser before the last one: its name, the
              \* kind of its result, whether it called the decoder, whether
              \* it left the parser open (history)
    pure,     \* only process_chunk has been called on deser so far (history)
    call      \* the last recorded call on parser or of a free function: its
              \* name, its input, the room of its writer, the parser before
              \* it, what it returned, the texts it passed to the decoder and
              \* the text it returned (history)

vars == <<fed, ncalls, cutOpen, parser, sink, deser, last, prev, pure, call>>

Op(op, ret, decoded) == [op |-> op, ret |-> ret, decoded |-> decoded]

NoOp == Op("new", Ret("Unit", NoValue), <<>>)

Summary(o, d) ==
    [op |-> o.op, kind |-> o.ret.kind, decoded |-> o.decoded # <<>>,
     open |-> is_in_json(d.parser)]

Call(fn, input, room, before, ret, decoded, text) ==
    [fn |-> fn, input |-> input, room |-> room, before |-> before,
     ret |-> ret, decoded |-> decoded, text |-> text]

NoCall == Call("none", <<>>, -1, JSONParser_new, Ret("Unit", NoValue), <<>>, <<>>)

Init ==
    /\ fed = <<>>
    /\ ncalls = 0
    /\ cutOpen = FALSE
    /\ parser = JSONParser_new
    /\ sink = <<>>
    /\ deser = StreamingDeserializer_new
    /\ last = NoOp
    /\ prev = Summary(NoOp, StreamingDeserializer_new)
    /\ pure = TRUE
    /\ call = NoCall

\* parser.extract_json_from_stream(&mut sink, chunk)
ExtractChunk(chunk) ==
    /\ ncalls < MaxCalls
    /\ LET r == extract_json_from_stream(parser, sink, chunk)
       IN  /\ parser' = r.parser
           /\ sink' = r.writer
    /\ fed' = fed \o chunk
    /\ ncalls' = ncalls + 1
    /\ cutOpen' = (cutOpen \/ (chunk # <<>> /\ is_in_json(parser)))
    /\ UNCHANGED <<deser, last, prev, pure, call>>

NextParser == \E chunk \in Strings(0, MaxLen - Len(fed)) : ExtractChunk(chunk)

SpecParser == Init /\ [][NextParser]_vars

\* parser.extract_json_from_stream(&mut sink, chunk) where sink accepts room
\* more characters (room < 0: its writes never fail); the call is recorded.
ExtractInto(chunk, room) ==
    /\ ncalls < MaxCalls
    /\ LET r == extract_json_from_stream_w(parser, sink, room, chunk)
       IN  /\ parser' = r.parser
           /\ sink' = r.writer
           /\ call' = Call("extract_json_from_stream", chunk, room, parser,
                           Ret(IF r.err THEN "Err" ELSE "Ok", NoValue), <<>>, <<>>)
    /\ fed' = fed \o chunk
    /\ ncalls' = ncalls + 1
    /\ UNCHANGED <<cutOpen, deser, last, prev, pure>>

NextFaulty ==
    \E chunk \in Strings(0, MaxIn - Len(fed)) :
        \E room \in -1..(Len(chunk) - 1) : ExtractInto(chunk, room)

SpecFaulty == Init /\ [][NextFaulty]_vars

\* deser.process_chunk(chunk)
ProcessChunk(chunk) ==
    /\ LET r == process_chunk(deser, chunk)
       IN  /\ deser' = r.deser
           /\ last' = Op("process_chunk", r.ret, r.decoded)
    /\ prev' = Summary(last, deser)
    /\ fed' = fed \o chunk
    /\ cutOpen' = (cutOpen \/ (chunk # <<>> /\ is_in_json(deser.parser)))
    /\ UNCHANGED <<ncalls, parser, sink, pure, call>>

\* deser.finalize(); a successful finalize calls reset.
Finalize ==
    /\ LET r == finalize(deser)
       IN  /\ deser' = r.deser
           /\ last' = Op("finalize", r.ret, r.decoded)
           /\ fed' = IF r.ret.kind = "OkSome" THEN <<>> ELSE fed
           /\ cutOpen' = IF r.ret.kind = "OkSome" THEN FALSE ELSE cutOpen
    /\ prev' = Summary(last, deser)
    /\ pure' = FALSE
    /\ UNCHANGED <<ncalls, parser, sink, call>>

\* deser.reset()
Reset ==
    /\ deser' = reset(deser)
    /\ last' = Op("reset", Ret("Unit", NoValue), <<>>)
    /\ prev' = Summary(last, deser)
    /\ fed' = <<>>
    /\ cutOpen' = FALSE
    /\ pure' = FALSE
    /\ UNCHANGED <<ncalls, parser, sink, call>>

Next ==
    \/ \E chunk \in Strings(0, MaxFed - Len(fed)) : ProcessChunk(chunk)
    \/ Finalize
    \/ Reset

Spec == Init /\ [][Next]_vars

\* The same deserializer on inputs with string literals.
NextQuoted ==
    \/ \E chunk \in StringsOver(QChars, 0, MaxQuoted - Len(fed)) : ProcessChunk(chunk)
    \/ Finalize
    \/ Reset

SpecQuoted == Init /\ [][NextQuoted]_vars

(***************************************************************************)
(* src/src/utils/string_extract.rs                                         *)
(* extract_json_to_string writes through a Cursor into a Vec<u8> and turns *)
(* the bytes into a String.                                                *)
(***************************************************************************)
\* The UTF-8 bytes write! produces for one character of the alphabets.
Utf8(c) ==
    CASE c = "{"  -> <<123>>
      [] c = "}"  -> <<125>>
      [] c = "["  -> <<91>>
      [] c = "]"  -> <<93>>
      [] c = "1"  -> <<49>>
      [] c = "\"" -> <<34>>

\* The bytes of a text.
RECURSIVE Utf8Bytes(_)
Utf8Bytes(text) == IF text = <<>> THEN <<>> ELSE Utf8(Head(text)) \o Utf8Bytes(Tail(text))

\* String::from_utf8: the text of the bytes, an error on a byte sequence
\* that is not the encoding of characters.
RECURSIVE from_utf8(_)
from_utf8(bytes) ==
    IF bytes = <<>> THEN [ok |-> TRUE, text |-> <<>>]
    ELSE IF \E c \in Chars \cup QChars : Utf8(c) = <<Head(bytes)>>
         THEN LET rest == from_utf8(Tail(bytes))
              IN  [ok |-> rest.ok,
                   text |-> IF rest.ok
                            THEN <<CHOOSE c \in Chars \cup QChars : Utf8(c) = <<Head(bytes)>>>>
                                 \o rest.text
                            ELSE <<>>]
         ELSE [ok |-> FALSE, text |-> <<>>]

\* A faulty variant of extract_json_to_string: the parser of the call before
\* is used again instead of a new one.
extract_json_to_string_shared(input) ==
    LET r == extract_json_from_stream(parser, <<>>, input)
    IN  [ok |-> from_utf8(Utf8Bytes(r.writer)).ok,
         text |-> from_utf8(Utf8Bytes(r.writer)).text,
         parser |-> r.parser]

\* extract_json_to_string(input): whether it returned Ok, the String it
\* returned, and its local parser as it was when the call returned.
extract_json_to_string(input) ==
    LET r == extract_json_from_stream(JSONParser_new, <<>>, input)
    IN  [ok |-> from_utf8(Utf8Bytes(r.writer)).ok,
         text |-> from_utf8(Utf8Bytes(r.writer)).text,
         parser |-> r.parser]

\* The recorded call as the summary of the call before the next one; parser
\* is the parser it left.
CallSummary ==
    [op |-> call.fn, kind |-> call.ret.kind, decoded |-> call.decoded # <<>>,
     open |-> is_in_json(parser)]

\* extract_json_to_string(input) is called.  parser holds the local parser of
\* the call as it was when the call returned and dropped it, prev a summary
\* of the call before this one.
ExtractJsonToString(input) ==
    /\ LET r == extract_json_to_string(input)
       IN  /\ call' = Call("extract_json_to_string", input, -1, JSONParser_new,
                           Ret(IF r.ok THEN "Ok" ELSE "Err", NoValue), <<>>, r.text)
           /\ parser' = r.parser
    /\ prev' = CallSummary
    /\ UNCHANGED <<fed, ncalls, cutOpen, sink, deser, last, pure>>

NextString == \E input \in Strings(0, MaxStr) : ExtractJsonToString(input)

SpecString == Init /\ [][NextString]_vars

(***************************************************************************)
(* src/src/serde/deserializer.rs                                           *)
(* A call yields [parser, ret, decoded]: the caller's parser after it,     *)
(* what it returned (Ok(value), Err(Deserialization) or Err(Extraction))   *)
(* and the texts it passed to serde_json::from_str.                        *)
(***************************************************************************)
\* serde_json::from_str(&text).map_err(DeserializeError::Deserialization)
Decode(p, text) ==
    [parser |-> p,
     ret |-> IF from_str(text).ok
             THEN Ret("Ok", from_str(text).value)
             ELSE Ret("ErrDeserialization", NoValue),
     decoded |-> <<text>>]

\* Err(DeserializeError::Extraction(..))
ExtractionError(p) == [parser |-> p, ret |-> Ret("ErrExtraction", NoValue), decoded |-> <<>>]

\* A faulty variant of from_mixed_text: an input without JSON is reported as
\* an extraction error instead of being given to the decoder.
from_mixed_text_empty_is_extraction(input) ==
    LET s == extract_json_to_string(input)
    IN  IF ~s.ok \/ s.text = <<>>
        THEN ExtractionError(s.parser)
        ELSE Decode(s.parser, s.text)

\* from_mixed_text(input); the parser field is the local parser of
\* extract_json_to_string, which the caller never sees.
from_mixed_text(input) ==
    LET s == extract_json_to_string(input)
    IN  IF ~s.ok
        THEN ExtractionError(s.parser)
        ELSE Decode(s.parser, s.text)

\* A faulty variant of from_mixed_text_with_parser: the text of the call is
\* decoded whether or not the parser is still inside a span.
from_mixed_text_with_parser_no_open_check(p, input) ==
    LET ex   == extract_json_from_stream(p, <<>>, input)
        json == from_utf8(Utf8Bytes(ex.writer))
    IN  IF json.ok /\ json.text # <<>>
        THEN Decode(ex.parser, json.text)
        ELSE ExtractionError(ex.parser)

\* from_mixed_text_with_parser(parser, input).  json is what this call
\* extracted from input; the second extraction, of the empty string, runs
\* when json is empty and the parser is closed.
from_mixed_text_with_parser(p, input) ==
    LET ex       == extract_json_from_stream(p, <<>>, input)
        json     == from_utf8(Utf8Bytes(ex.writer))
        flush    == extract_json_from_stream(ex.parser, <<>>, <<>>)
        complete == from_utf8(Utf8Bytes(flush.writer))
    IN  IF ~json.ok THEN ExtractionError(ex.parser)
        ELSE IF json.text = <<>> /\ ~is_in_json(ex.parser)
        THEN IF ~complete.ok THEN ExtractionError(flush.parser)
             ELSE IF complete.text # <<>> THEN Decode(flush.parser, complete.text)
             ELSE IF ~is_in_json(flush.parser) /\ json.text # <<>>
                  THEN Decode(flush.parser, json.text)
                  ELSE ExtractionError(flush.parser)
        ELSE IF ~is_in_json(ex.parser) /\ json.text # <<>>
             THEN Decode(ex.parser, json.text)
             ELSE ExtractionError(ex.parser)

\* from_mixed_text_with_parser(&mut parser, input); the call is recorded.
FromMixedTextWithParser(input) ==
    /\ ncalls < MaxCalls
    /\ LET r == from_mixed_text_with_parser(parser, input)
       IN  /\ parser' = r.parser
           /\ call' = Call("from_mixed_text_with_parser", input, -1, parser,
                           r.ret, r.decoded, <<>>)
    /\ fed' = fed \o input
    /\ ncalls' = ncalls + 1
    /\ UNCHANGED <<cutOpen, sink, deser, last, prev, pure>>

\* One JSONParser given to extract_json_from_stream, with a writer that
\* never fails, and to from_mixed_text_with_parser.
NextMixed ==
    \E input \in Strings(0, MaxIn - Len(fed)) :
        \/ ExtractInto(input, -1)
        \/ FromMixedTextWithParser(input)

SpecMixed == Init /\ [][NextMixed]_vars

\* from_mixed_text(input) is called.  parser holds the local parser of
\* extract_json_to_string as it was when dropped, fed every character given
\* to the calls so far.
FromMixedText(input) ==
    /\ LET r == from_mixed_text(input)
       IN  /\ call' = Call("from_mixed_text", input, -1, JSONParser_new,
                           r.ret, r.decoded, <<>>)
           /\ parser' = r.parser
    /\ fed' = fed \o input
    /\ UNCHANGED <<ncalls, cutOpen, sink, deser, last, prev, pure>>

\* from_mixed_text_with_parser(&mut JSONParser::new(), input) is called.
\* parser holds the caller's parser after the call, fed every character
\* given to the calls so far.
FromMixedTextNewParser(input) ==
    /\ LET r == from_mixed_text_with_parser(JSONParser_new, input)
       IN  /\ call' = Call("from_mixed_text_with_parser", input, -1, JSONParser_new,
                           r.ret, r.decoded, <<>>)
           /\ parser' = r.parser
    /\ fed' = fed \o input
    /\ UNCHANGED <<ncalls, cutOpen, sink, deser, last, prev, pure>>

\* Calls of the two deserializing functions, each on a parser of its own.
NextFree ==
    \E input \in Strings(0, MaxIn - Len(fed)) :
        \/ FromMixedText(input)
        \/ FromMixedTextNewParser(input)

SpecFree == Init /\ [][NextFree]_vars

(***************************************************************************)
(* Reference notions the claims are stated with                            *)
(***************************************************************************)
Prefix(s, k) == SubSeq(s, 1, k)

IsOpener(c) == c \in {"{", "["}

IsCloser(c) == c \in {"}", "]"}

IsStructural(c) == IsOpener(c) \/ IsCloser(c)

CloserOf(c) == IF c = "{" THEN "}" ELSE "]"

\* A strict LIFO bracket matcher: an opener pushes its closer, a closer must
\* equal the top of the stack and pops it, any other closer is an error, any
\* other character changes nothing.
RECURSIVE Ref(_)
Ref(s) ==
    IF s = <<>> THEN [ok |-> TRUE, stack |-> <<>>]
    ELSE LET r == Ref(Prefix(s, Len(s) - 1))
             c == s[Len(s)]
         IN  IF ~r.ok THEN r
             ELSE IF IsOpener(c) THEN [ok |-> TRUE, stack |-> Append(r.stack, CloserOf(c))]
             ELSE IF IsCloser(c)
                  THEN IF r.stack # <<>> /\ r.stack[Len(r.stack)] = c
                       THEN [ok |-> TRUE, stack |-> SubSeq(r.stack, 1, Len(r.stack) - 1)]
                       ELSE [ok |-> FALSE, stack |-> <<>>]
             ELSE r

RefDepth(s, k) == Len(Ref(Prefix(s, k)).stack)

\* Every closer of s closes the most recently opened unclosed opener, and
\* nothing is left open: s is well-nested spans with text around them that
\* holds no structural character.
WellNested(s) == Ref(s).ok /\ Ref(s).stack = <<>>

\* The positions of s inside a span of the strict matcher.
RefInSpan(s, i) == RefDepth(s, i - 1) > 0 \/ RefDepth(s, i) > 0

\* The subsequence of s at the positions satisfying Keep.
RECURSIVE Filter(_, _, _)
Filter(s, Keep(_, _), n) ==
    IF n = 0 THEN <<>>
    ELSE IF Keep(s, n) THEN Append(Filter(s, Keep, n - 1), s[n])
    ELSE Filter(s, Keep, n - 1)

\* The spans of a well-nested s, concatenated in order of appearance.
RefSpans(s) == Filter(s, RefInSpan, Len(s))

\* How many spans of the strict matcher end in s.
NumSpans(s) == Cardinality({i \in 1..Len(s) : RefDepth(s, i - 1) > 0 /\ RefDepth(s, i) = 0})

\* s is a non-empty prefix of one well-nested span that stops before the
\* span's final closer.
IsStrictSpanPrefix(s) ==
    /\ s # <<>>
    /\ Ref(s).ok
    /\ \A k \in 1..Len(s) : RefDepth(s, k) > 0

\* s is exactly one well-nested span.
IsWholeSpan(s) ==
    /\ s # <<>>
    /\ IsOpener(s[1])
    /\ WellNested(s)
    /\ \A k \in 1..(Len(s) - 1) : RefDepth(s, k) > 0

\* The nesting depth the parser tracks after the first k characters of s.
DepthAfter(s, k) == Len(extract_json_from_stream(JSONParser_new, <<>>, Prefix(s, k)).parser.markers)

\* Position i of s lies in a span: from the opener that takes the tracked depth
\* from 0 to 1 through the character that returns it to 0.
InSpan(s, i) == DepthAfter(s, i - 1) > 0 \/ DepthAfter(s, i) > 0

SpanText(s) == Filter(s, InSpan, Len(s))

(***************************************************************************)
(* Claims about JSONParser (checked under SpecParser)                      *)
(***************************************************************************)

\* C1: feeding the input in any consecutive chunks to one JSONParser writes the
\* same characters to the sink, and leaves the same marker stack and the same
\* is_in_json, as feeding the whole input in one call to a new JSONParser.
C1_ChunkSplitInvariance ==
    LET whole == extract_json_from_stream(JSONParser_new, <<>>, fed)
    IN  /\ sink = whole.writer
        /\ parser.markers = whole.parser.markers
        /\ is_in_json(parser) = is_in_json(whole.parser)

\* C1 witness: an input delivered in several calls, one boundary inside an
\* open span, which produced output and ended closed.
C1_Witness ==
    /\ ncalls >= 2
    /\ cutOpen
    /\ sink # <<>>
    /\ Len(sink) < Len(fed)
    /\ ~is_in_json(parser)

\* C2 (as claimed): the sink holds exactly the spans of the input, in order; no
\* character outside every span is written.
C2_SinkIsSpans == sink = SpanText(fed)

\* C3: for well-nested spans separated and surrounded by text without
\* structural characters, the sink holds the spans concatenated in order and
\* the parser is closed at the end of the input.
C3_WellNestedSpans ==
    (WellNested(fed) /\ NumSpans(fed) >= 1)
        => (sink = RefSpans(fed) /\ ~is_in_json(parser))

\* C3 witness: two spans with text between them, extracted without the text.
C3_Witness ==
    /\ WellNested(fed)
    /\ NumSpans(fed) >= 2
    /\ \E i \in 2..(Len(fed) - 1) : ~IsStructural(fed[i]) /\ ~RefInSpan(fed, i)
    /\ sink = RefSpans(fed)
    /\ Len(sink) < Len(fed)
    /\ ~is_in_json(parser)

\* C4: after any non-empty strict prefix of a well-nested span is_in_json is
\* true, and it is false once the span's final closer has been processed.
C4_OpenClosedTracking ==
    /\ IsStrictSpanPrefix(fed) => is_in_json(parser)
    /\ IsWholeSpan(fed) => ~is_in_json(parser)

\* C4 witness: a whole span with a nested structure inside, delivered in
\* several calls with a boundary inside it, after which the parser is closed.
C4_Witness ==
    /\ IsWholeSpan(fed)
    /\ \E k \in 1..Len(fed) : RefDepth(fed, k) >= 2
    /\ cutOpen
    /\ ~is_in_json(parser)

(***************************************************************************)
(* Claims about StreamingDeserializer (checked under Spec)                 *)
(***************************************************************************)
TextOnly(s) == \A i \in 1..Len(s) : ~IsStructural(s[i])

\* s is text, then the one well-nested span s[i..j], then text.
SingleSpanAt(s, i, j) ==
    /\ 1 <= i /\ i <= j /\ j <= Len(s)
    /\ TextOnly(SubSeq(s, 1, i - 1))
    /\ IsWholeSpan(SubSeq(s, i, j))
    /\ TextOnly(SubSeq(s, j + 1, Len(s)))

\* s is text followed by nothing or by a strict prefix of a well-nested span.
BeforeFinalCloser(s) ==
    \E i \in 1..(Len(s) + 1) :
        /\ TextOnly(SubSeq(s, 1, i - 1))
        /\ (i = Len(s) + 1 \/ IsStrictSpanPrefix(SubSeq(s, i, Len(s))))

\* Option<T> from the decoder's Result: Some(value) on Ok, None on Err.
OptionOf(text) ==
    IF from_str(text).ok THEN Ret("Some", from_str(text).value) ELSE Ret("None", NoValue)

\* The step is a call of process_chunk / of finalize.
IsProcessChunkStep == last'.op = "process_chunk" /\ <<deser, last, prev, fed>>' # <<deser, last, prev, fed>>

IsFinalizeStep == last'.op = "finalize" /\ <<deser, last, prev, fed>>' # <<deser, last, prev, fed>>

\* The chunk a process_chunk step was given.
StepChunk == SubSeq(fed', Len(fed) + 1, Len(fed'))

\* The operation o is a process_chunk whose text the decoder rejected.
Rejected(o) == o.op = "process_chunk" /\ o.decoded # <<>> /\ ~from_str(o.decoded[1]).ok

\* C5: process_chunk decides once, after the whole chunk went through the
\* extractor and its output was appended to the buffer: closed and non-empty
\* means the whole buffer goes to the decoder, the buffer is cleared and the
\* result is Some(value) or, on a decode failure, None; otherwise None, no
\* decoder call, and the buffer is kept.
C5_ProcessChunkDecision ==
    [][IsProcessChunkStep =>
        LET ex  == extract_json_from_stream(deser.parser, <<>>, StepChunk)
            buf == deser.accumulated_json \o ex.writer
        IN  /\ deser'.parser = ex.parser
            /\ IF ~is_in_json(ex.parser) /\ buf # <<>>
               THEN /\ last'.decoded = <<buf>>
                    /\ deser'.accumulated_json = <<>>
                    /\ last'.ret = OptionOf(buf)
               ELSE /\ last'.decoded = <<>>
                    /\ deser'.accumulated_json = buf
                    /\ last'.ret = Ret("None", NoValue)]_vars

\* C5 witness: a process_chunk that gave the decoder a well-nested span
\* collected over several calls, had it rejected, returned None and left the
\* buffer empty.
C5_Witness ==
    /\ last.op = "process_chunk"
    /\ cutOpen
    /\ last.decoded # <<>>
    /\ IsWholeSpan(last.decoded[1])
    /\ ~from_str(last.decoded[1]).ok
    /\ last.ret = Ret("None", NoValue)
    /\ deser.accumulated_json = <<>>

\* C6: one well-nested span, with text before and after, split over several
\* process_chunk calls on a new deserializer: each call before the one holding
\* the final closer returns None without decoding, and the call holding the
\* final closer gives the decoder exactly the whole span and returns its value.
C6_SplitSpan ==
    [][(IsProcessChunkStep /\ pure) =>
        /\ BeforeFinalCloser(fed') =>
               (last'.ret = Ret("None", NoValue) /\ last'.decoded = <<>>)
        /\ \A i, j \in 1..Len(fed') :
               (SingleSpanAt(fed', i, j) /\ j > Len(fed)) =>
                   /\ last'.decoded = <<SubSeq(fed', i, j)>>
                   /\ last'.ret = OptionOf(SubSeq(fed', i, j))]_vars

\* C6 witness: text, a span cut by a call boundary, text; the last call
\* decoded the whole span and returned its value.
C6_Witness ==
    /\ pure
    /\ cutOpen
    /\ last.op = "process_chunk"
    /\ last.ret.kind = "Some"
    /\ \E i, j \in 2..(Len(fed) - 1) :
           /\ SingleSpanAt(fed, i, j)
           /\ last.decoded = <<SubSeq(fed, i, j)>>
           /\ last.ret.value = from_str(SubSeq(fed, i, j)).value

\* t is exactly one span: it starts with the opener that takes the tracked
\* depth from 0 to 1 and ends with the character that first returns it to 0.
IsOneSpan(t) ==
    /\ t # <<>>
    /\ IsOpener(t[1])
    /\ \A k \in 1..(Len(t) - 1) : DepthAfter(t, k) > 0
    /\ DepthAfter(t, Len(t)) = 0

\* C7 (as claimed): every text process_chunk passes to the decoder is exactly
\* one complete top-level span.
C7_DecodedIsOneSpan ==
    (last.op = "process_chunk" /\ last.decoded # <<>>) => IsOneSpan(last.decoded[1])

\* s is two whole spans back-to-back, each decodable, the first ending at k.
TwoDecodableAt(s, k) ==
    /\ IsWholeSpan(SubSeq(s, 1, k))
    /\ IsWholeSpan(SubSeq(s, k + 1, Len(s)))
    /\ from_str(SubSeq(s, 1, k)).ok
    /\ from_str(SubSeq(s, k + 1, Len(s))).ok

\* C8 (as claimed): the first process_chunk of a new deserializer, given two
\* decodable structures back-to-back in one chunk, returns Some of the first.
C8_FirstOfTwo ==
    \A k \in 1..(Len(fed) - 1) :
        (pure /\ prev.op = "new" /\ last.op = "process_chunk" /\ TwoDecodableAt(fed, k))
            => last.ret = Ret("Some", from_str(SubSeq(fed, 1, k)).value)

\* C9 (as claimed): after the first process_chunk of a new deserializer got a
\* chunk holding one complete decodable structure, finalize returns
\* Ok(Some(value)) with that structure's value.
C9_FinalizeAfterComplete ==
    [][\A i, j \in 1..Len(fed) :
        (/\ pure /\ prev.op = "new" /\ last.op = "process_chunk"
         /\ SingleSpanAt(fed, i, j)
         /\ from_str(SubSeq(fed, i, j)).ok
         /\ IsFinalizeStep)
            => last'.ret = Ret("OkSome", from_str(SubSeq(fed, i, j)).value)]_vars

\* C10: a closed span the decoder rejects makes process_chunk return None
\* with the buffer already cleared, so a finalize right after it returns
\* Ok(None) without decoding; finalize returns a decode error only for text
\* that was pending in the buffer.
C10_RejectedThenFinalize ==
    [][/\ Rejected(last') =>
              (last'.ret = Ret("None", NoValue) /\ deser'.accumulated_json = <<>>)
       /\ (Rejected(last) /\ IsFinalizeStep) =>
              (last'.ret = Ret("OkNone", NoValue) /\ last'.decoded = <<>>)
       /\ (IsFinalizeStep /\ last'.ret.kind = "ErrDeserialization") =>
              (/\ deser.accumulated_json # <<>>
               /\ last'.decoded = <<deser.accumulated_json>>)]_vars

\* C10 witness: finalize returned Ok(None) right after a process_chunk that
\* completed a well-nested span the decoder rejects.
C10_Witness ==
    /\ IsWholeSpan(fed)
    /\ ~from_str(fed).ok
    /\ last.op = "finalize"
    /\ last.ret = Ret("OkNone", NoValue)
    /\ last.decoded = <<>>
    /\ prev.op = "process_chunk"
    /\ prev.decoded
    /\ prev.kind = "None"

\* C11: finalize on a non-empty buffer the decoder rejects returns
\* Err(DeserializeError::Deserialization): not Ok(None), not an Extraction error.
C11_FinalizeRejected ==
    [][(/\ IsFinalizeStep
        /\ deser.accumulated_json # <<>>
        /\ ~from_str(deser.accumulated_json).ok)
            => last'.ret = Ret("ErrDeserialization", NoValue)]_vars

\* C11 witness: finalize returned the decode error for an unterminated span
\* that was pending in the buffer.
C11_Witness ==
    /\ last.op = "finalize"
    /\ last.ret.kind = "ErrDeserialization"
    /\ IsStrictSpanPrefix(deser.accumulated_json)
    /\ last.decoded = <<deser.accumulated_json>>
    /\ is_in_json(deser.parser)

\* C12: finalize on an empty buffer returns Ok(None), does not call the
\* decoder, and leaves the parser stack and the buffer as they were.
C12_FinalizeEmpty ==
    [][(IsFinalizeStep /\ deser.accumulated_json = <<>>)
            => /\ last'.ret = Ret("OkNone", NoValue)
               /\ last'.decoded = <<>>
               /\ deser' = deser]_vars

\* C12 witness: finalize as the first operation of a new deserializer
\* returned Ok(None) and left it as constructed.
C12_Witness ==
    /\ last.op = "finalize"
    /\ prev.op = "new"
    /\ last.ret = Ret("OkNone", NoValue)
    /\ last.decoded = <<>>
    /\ deser = StreamingDeserializer_new

\* C13: finalize passes a non-empty buffer to the decoder even while the
\* extractor is open; when the decode succeeds it returns Ok(Some(value)) and
\* leaves is_in_json false and accumulated_json empty.
C13_FinalizeDecodesOpen ==
    [][(IsFinalizeStep /\ deser.accumulated_json # <<>>)
            => /\ last'.decoded = <<deser.accumulated_json>>
               /\ from_str(deser.accumulated_json).ok
                      => /\ last'.ret = Ret("OkSome", from_str(deser.accumulated_json).value)
                         /\ ~is_in_json(deser'.parser)
                         /\ deser'.accumulated_json = <<>>]_vars

\* C13 witness: finalize decoded a text that the extractor holds open (a
\* bracket inside a string literal) and the accumulator is clear afterwards.
C13_Witness ==
    /\ last.op = "finalize"
    /\ last.ret.kind = "OkSome"
    /\ Len(last.decoded) = 1
    /\ is_in_json(extract_json_from_stream(JSONParser_new, <<>>, last.decoded[1]).parser)
    /\ ~is_in_json(deser.parser)
    /\ deser.accumulated_json = <<>>

\* C14: reset leaves is_in_json false and accumulated_json empty, whatever
\* the accumulator held, and the process_chunk or finalize call that follows
\* does what it does on a newly constructed StreamingDeserializer; the
\* deserializer after reset is the newly constructed one, so the same holds
\* for every call after that.
C14_ResetIsNew ==
    [][/\ last'.op = "reset"
           => /\ ~is_in_json(deser'.parser)
              /\ deser'.accumulated_json = <<>>
              /\ deser' = StreamingDeserializer_new
       /\ (last.op = "reset" /\ IsProcessChunkStep)
           => LET r == process_chunk(StreamingDeserializer_new, StepChunk)
              IN  /\ deser' = r.deser
                  /\ last'.ret = r.ret
                  /\ last'.decoded = r.decoded
       /\ (last.op = "reset" /\ IsFinalizeStep)
           => LET r == finalize(StreamingDeserializer_new)
              IN  /\ deser' = r.deser
                  /\ last'.ret = r.ret
                  /\ last'.decoded = r.decoded]_vars

\* C14 witness: reset was called in the middle of a span and left a newly
\* constructed deserializer.
C14_Witness ==
    /\ last.op = "reset"
    /\ prev.op = "process_chunk"
    /\ prev.open
    /\ deser = StreamingDeserializer_new

\* What a call on parser p with input s hands to its writer, character by
\* character, when no write fails.
Handed(p, s) == extract_json_from_stream(p, <<>>, s).writer

\* The position in the input of the recorded call of the character whose
\* write failed: the first one handed to a writer with no room left.
FailedAt ==
    CHOOSE k \in 1..Len(call.input) :
        /\ Len(Handed(call.before, Prefix(call.input, k))) = call.room + 1
        /\ Len(Handed(call.before, Prefix(call.input, k - 1))) = call.room

\* C15: when a write fails the call returns the error without processing
\* any later character, and the marker stack and the span buffer are what
\* they were before the character whose write failed.
C15_FailedWriteState ==
    (call.fn = "extract_json_from_stream" /\ call.ret.kind = "Err")
        => parser = extract_json_from_stream(call.before, <<>>,
                                             Prefix(call.input, FailedAt - 1)).parser

\* What the code does on a failed write: the state already includes the
\* character whose write failed, and no later character.
C15_StateIncludesFailedChar ==
    (call.fn = "extract_json_from_stream" /\ call.ret.kind = "Err")
        => parser = extract_json_from_stream(call.before, <<>>,
                                             Prefix(call.input, FailedAt)).parser

\* C16: a call whose writer never fails returns Ok(()) for every input and
\* every parser state before it; a call returns Err only when a write failed,
\* that is when it handed its writer more characters than the writer accepts.
C16_OnlyWriteErrors ==
    call.fn = "extract_json_from_stream"
        => /\ call.room < 0 => call.ret.kind = "Ok"
           /\ call.ret.kind = "Err"
                  => /\ call.room >= 0
                     /\ Len(Handed(call.before, call.input)) > call.room

\* C16 witness: a call with a writer that never fails returned Ok(()) on an
\* input with a closer that does not match the top of the stack, from a
\* parser inside a span.
C16_Witness ==
    /\ call.fn = "extract_json_from_stream"
    /\ call.room < 0
    /\ call.ret.kind = "Ok"
    /\ is_in_json(call.before)
    /\ \E k \in 1..Len(call.input) :
           LET b == extract_json_from_stream(call.before, <<>>,
                                             Prefix(call.input, k - 1)).parser
           IN  /\ IsCloser(call.input[k])
               /\ b.markers # <<>>
               /\ b.markers[Len(b.markers)] # call.input[k]

\* The parser as it was before the last character given to it.
BeforeLastChar == extract_json_from_stream(JSONParser_new, <<>>, Prefix(fed, Len(fed) - 1)).parser

\* C17: whenever a closer removes a marker from the stack, the expected
\* closer of the removed marker is that character (strict LIFO pop).
C17_StrictLifoPop ==
    (/\ fed # <<>>
     /\ IsCloser(fed[Len(fed)])
     /\ Len(parser.markers) < Len(BeforeLastChar.markers))
        => BeforeLastChar.markers[Len(BeforeLastChar.markers)] = fed[Len(fed)]

\* C18: extract_json_to_string(input) returns the characters a newly
\* created JSONParser writes to its sink when given input in one call,
\* whatever the calls before it were.
C18_ToStringOfNewParser ==
    call.fn = "extract_json_to_string"
        => /\ call.ret.kind = "Ok"
           /\ call.text = Handed(JSONParser_new, call.input)

\* C18 witness: a call returned the span of its input although the call
\* before it ended inside an open span.
C18_Witness ==
    /\ call.fn = "extract_json_to_string"
    /\ prev.op = "extract_json_to_string"
    /\ prev.open
    /\ call.ret.kind = "Ok"
    /\ \E i \in 1..Len(call.input) :
           /\ IsWholeSpan(SubSeq(call.input, i, Len(call.input)))
           /\ call.text = SubSeq(call.input, i, Len(call.input))
           /\ i > 1

\* C19: from_mixed_text_with_parser on a parser that earlier calls left in
\* the middle of a span, with an input that completes the span, decodes the
\* whole span (what the earlier calls consumed, then this input) and returns
\* Ok(value).
C19_CompletesEarlierSpan ==
    (/\ call.fn = "from_mixed_text_with_parser"
     /\ is_in_json(call.before)
     /\ IsWholeSpan(fed)
     /\ from_str(fed).ok)
        => call.ret = Ret("Ok", from_str(fed).value)

\* The strict matcher is inside a span at the end of s, with no error before.
Unterminated(s) == Ref(s).ok /\ Ref(s).stack # <<>>

\* C20: from_mixed_text_with_parser with an input that leaves the parser
\* inside an unterminated span returns Err without calling the decoder, and
\* the parser is open after the call.
C20_IncompleteIsErr ==
    (call.fn = "from_mixed_text_with_parser" /\ Unterminated(fed))
        => /\ call.ret = Ret("ErrExtraction", NoValue)
           /\ call.decoded = <<>>
           /\ is_in_json(parser)

\* C20 witness: the first call on a new parser, with an input that opens a
\* span and does not close it, returned the extraction error.
C20_Witness ==
    /\ call.fn = "from_mixed_text_with_parser"
    /\ call.before = JSONParser_new
    /\ call.input = fed
    /\ IsStrictSpanPrefix(fed)
    /\ call.ret.kind = "ErrExtraction"
    /\ call.decoded = <<>>
    /\ is_in_json(parser)

SinkBeforeLastChar == Handed(JSONParser_new, Prefix(fed, Len(fed) - 1))

\* C22: a character that is none of the four structural characters, met
\* while the parser is closed, is not written to the sink and leaves the
\* marker stack and the span buffer unchanged.
C22_TextWhileClosedDropped ==
    (/\ fed # <<>>
     /\ ~IsStructural(fed[Len(fed)])
     /\ ~is_in_json(BeforeLastChar))
        => /\ sink = SinkBeforeLastChar
           /\ parser = BeforeLastChar

\* C22 witness: text arrived after a span had been written and closed.
C22_Witness ==
    /\ Len(fed) > 1
    /\ ~IsStructural(fed[Len(fed)])
    /\ ~is_in_json(BeforeLastChar)
    /\ IsWholeSpan(Prefix(fed, Len(fed) - 1))
    /\ sink = Prefix(fed, Len(fed) - 1)
    /\ parser = JSONParser_new

\* C23: process_chunk on a closed deserializer with a chunk that holds none
\* of the four structural characters returns None, does not call the
\* decoder, and leaves is_in_json false and accumulated_json empty.
C23_TextChunkWhileClosed ==
    [][(/\ IsProcessChunkStep
        /\ ~is_in_json(deser.parser)
        /\ TextOnly(StepChunk))
            => /\ last'.ret = Ret("None", NoValue)
               /\ last'.decoded = <<>>
               /\ ~is_in_json(deser'.parser)
               /\ deser'.accumulated_json = <<>>]_vars

\* C23 witness: a chunk of text given to a deserializer that had closed after
\* returning a value.
C23_Witness ==
    /\ last.op = "process_chunk"
    /\ prev.op = "process_chunk"
    /\ prev.kind = "Some"
    /\ ~prev.open
    /\ \E k \in 1..(Len(fed) - 1) :
           /\ IsWholeSpan(Prefix(fed, k))
           /\ TextOnly(SubSeq(fed, k + 1, Len(fed)))
    /\ last.ret = Ret("None", NoValue)
    /\ last.decoded = <<>>
    /\ deser = StreamingDeserializer_new

\* C24: Marker::new(c) is Some exactly when c is an opening brace or an
\* opening bracket, and is_counter_part(d) of the marker is true exactly
\* for the closing brace of the former and the closing bracket of the
\* latter; every other character, the closers included, gives None.  Stated
\* for the characters the parser has been given.
C24_MarkerNew ==
    \A k \in 1..Len(fed) :
        LET c == fed[k]
        IN  /\ Marker_new(c).some <=> c \in {"{", "["}
            /\ Marker_new(c).some
                   => \A d \in Chars :
                          is_counter_part(Marker_new(c), d)
                              <=> ((c = "{" /\ d = "}") \/ (c = "[" /\ d = "]"))

\* C24 witness: the parser has been given both openers, both closers and a
\* character that is not structural.
C24_Witness ==
    /\ ncalls > 0
    /\ \A c \in Chars : \E k \in 1..Len(fed) : fed[k] = c

\* C25: a structural character met while the parser is closed pushes: right
\* after it the stack is not empty, whichever of the four it was.
C25_StructuralWhileClosedPushes ==
    (/\ fed # <<>>
     /\ IsStructural(fed[Len(fed)])
     /\ ~is_in_json(BeforeLastChar))
        => is_in_json(parser)

\* C26: a closer that is the expected closer of no marker in the stack
\* leaves the stack as it was, in the open and in the closed state.
C26_UnmatchedCloserKeepsStack ==
    (/\ fed # <<>>
     /\ IsCloser(fed[Len(fed)])
     /\ \A i \in 1..Len(BeforeLastChar.markers) : BeforeLastChar.markers[i] # fed[Len(fed)])
        => parser.markers = BeforeLastChar.markers

\* C26 witness: inside a span, a closer arrived that no marker expects.
C26_Witness ==
    /\ fed # <<>>
    /\ IsCloser(fed[Len(fed)])
    /\ is_in_json(BeforeLastChar)
    /\ \A i \in 1..Len(BeforeLastChar.markers) : BeforeLastChar.markers[i] # fed[Len(fed)]
    /\ parser.markers = BeforeLastChar.markers

\* C27: on input where every closer so far matches the most recently opened
\* unclosed opener, the stack is that of the strict LIFO matcher after every
\* character: the same depth and the same markers in the same order.
C27_WellNestedIsLifo ==
    Ref(fed).ok => parser.markers = Ref(fed).stack

\* C27 witness: a span nested two deep has been opened and closed in order.
C27_Witness ==
    /\ IsWholeSpan(fed)
    /\ \E k \in 1..Len(fed) : RefDepth(fed, k) = 2
    /\ parser.markers = <<>>
    /\ ncalls > 0

\* The parser after the first k characters given to it.
ParserAfter(k) == extract_json_from_stream(JSONParser_new, <<>>, Prefix(fed, k)).parser

\* C28: from a closed parser, after an opening brace, an opening bracket, a
\* closing brace and a closing bracket in that order, the closing brace has
\* popped the marker of the bracket, the closing bracket has matched nothing
\* and popped nothing, and the parser is still open.
C28_OutOfOrderClosers ==
    fed = <<"{", "[", "}", "]">>
        => /\ ParserAfter(2).markers = <<"}", "]">>
           /\ ParserAfter(3).markers = <<"}">>
           /\ parser.markers = ParserAfter(3).markers
           /\ is_in_json(parser)

\* C28 witness: the four characters have been given and the parser is open.
C28_Witness ==
    /\ fed = <<"{", "[", "}", "]">>
    /\ ncalls > 0
    /\ parser.markers = <<"}">>

\* C29: an opener raises the stack depth by exactly one, in the open and in
\* the closed state; a closer lowers it by one or leaves it; a character
\* that is not structural leaves the stack alone; the depth is never
\* negative.
C29_DepthStep ==
    fed # <<>>
        => /\ IsOpener(fed[Len(fed)])
                  => Len(parser.markers) = Len(BeforeLastChar.markers) + 1
           /\ IsCloser(fed[Len(fed)])
                  => Len(parser.markers) \in {Len(BeforeLastChar.markers) - 1,
                                              Len(BeforeLastChar.markers)}
           /\ ~IsStructural(fed[Len(fed)])
                  => parser.markers = BeforeLastChar.markers
           /\ Len(parser.markers) >= 0

\* C29 witness: an opener met inside a span of the same kind took the depth
\* from one to two.
C29_Witness ==
    /\ Len(fed) > 1
    /\ IsOpener(fed[Len(fed)])
    /\ BeforeLastChar.markers = <<CloserOf(fed[Len(fed)])>>
    /\ Len(parser.markers) = 2

\* The position of the opener that last took the stack from empty to
\* non-empty.
LastOpening ==
    CHOOSE k \in 1..Len(fed) :
        /\ DepthAfter(fed, k - 1) = 0
        /\ \A j \in k..Len(fed) : DepthAfter(fed, j) > 0

\* C30: after every character, an empty stack comes with an empty span
\* buffer, and with a non-empty stack the buffer holds the characters written
\* to the sink since the stack last went from empty to non-empty.
C30_BufferInvariant ==
    /\ parser.markers = <<>> => parser.buffer = <<>>
    /\ parser.markers # <<>>
           => /\ parser.buffer = SubSeq(fed, LastOpening, Len(fed))
              /\ Len(parser.buffer) <= Len(sink)
              /\ parser.buffer = SubSeq(sink, Len(sink) - Len(parser.buffer) + 1, Len(sink))

\* C30 witness: a second span is open after a first one was written and
\* closed, and the buffer holds the second only.
C30_Witness ==
    /\ parser.markers # <<>>
    /\ Len(parser.buffer) > 1
    /\ Len(sink) > Len(parser.buffer)
    /\ parser.buffer = SubSeq(fed, LastOpening, Len(fed))

IsStructuralAt(s, i) == IsStructural(s[i])

\* The subsequence of the four structural characters of s.
StructuralOnly(s) == Filter(s, IsStructuralAt, Len(s))

\* C31: the nesting stack after an input is the stack after the subsequence
\* of its structural characters alone, and so is is_in_json: quotes around a
\* structural character make no difference.
C31_StackOfStructuralOnly ==
    LET alone == extract_json_from_stream(JSONParser_new, <<>>, StructuralOnly(fed)).parser
    IN  /\ deser.parser.markers = alone.markers
        /\ is_in_json(deser.parser) = is_in_json(alone)

\* C31 witness: an opening brace between quotes, inside an array that has
\* been closed, keeps the parser open.
C31_Witness ==
    /\ fed = <<"[", "\"", "{", "\"", "]">>
    /\ last.op = "process_chunk"
    /\ deser.parser.markers = <<"]">>
    /\ StructuralOnly(fed) = <<"[", "{", "]">>

\* C32: after construction and after every return of process_chunk,
\* finalize or reset, accumulated_json is empty exactly when the parser is
\* closed.
C32_EmptyIffClosed ==
    (deser.accumulated_json = <<>>) <=> ~is_in_json(deser.parser)

\* C32 witness: after a value was returned, a new span is open and held in
\* the buffer.
C32_Witness ==
    /\ last.op = "process_chunk"
    /\ prev.op = "process_chunk"
    /\ prev.kind = "Some"
    /\ ~prev.open
    /\ is_in_json(deser.parser)
    /\ deser.accumulated_json # <<>>

\* C33: a finalize whose decode fails leaves the buffer and the nesting
\* stack as they were, so a second finalize returns the same error and a
\* later process_chunk continues the same span.
C33_FailedFinalizeKeepsState ==
    [][/\ (IsFinalizeStep /\ last'.ret.kind = "ErrDeserialization")
           => /\ deser'.accumulated_json = deser.accumulated_json
              /\ deser'.parser.markers = deser.parser.markers
              /\ deser' = deser
       /\ (IsFinalizeStep /\ last.op = "finalize" /\ last.ret.kind = "ErrDeserialization")
           => /\ last'.ret = last.ret
              /\ last'.decoded = last.decoded
       /\ (IsProcessChunkStep /\ last.op = "finalize" /\ last.ret.kind = "ErrDeserialization")
           => LET text == last.decoded[1] \o Handed(deser.parser, StepChunk)
              IN  IF last'.decoded # <<>>
                  THEN last'.decoded = <<text>>
                  ELSE deser'.accumulated_json = text]_vars

\* C33 witness: after finalize failed on an open span, process_chunk was
\* given the rest of the span and returned its value.
C33_Witness ==
    /\ last.op = "process_chunk"
    /\ last.ret.kind = "Some"
    /\ prev.op = "finalize"
    /\ prev.kind = "ErrDeserialization"
    /\ prev.open
    /\ IsWholeSpan(fed)
    /\ last.decoded = <<fed>>

\* C34: extraction is idempotent: a new parser given the output of a new
\* parser on the input writes that output again unchanged, and both runs end
\* with the same nesting stack.
C34_Idempotent ==
    LET again == extract_json_from_stream(JSONParser_new, <<>>, sink)
    IN  /\ again.writer = sink
        /\ again.parser.markers = parser.markers

\* C34 witness: the output dropped text around a closed span and before an
\* open one.
C34_Witness ==
    /\ ncalls > 0
    /\ Len(sink) < Len(fed)
    /\ Len(sink) > 2
    /\ is_in_json(parser)
    /\ Handed(JSONParser_new, sink) = sink

\* The characters of s at the positions in K, in order.
Restrict(s, K) == Filter(s, LAMBDA t, i : i \in K, Len(s))

\* The positions of s read while the parser is open.
ReadWhileOpen(s) == {i \in 1..Len(s) : DepthAfter(s, i - 1) > 0}

\* C35: the sink holds a subsequence of the input in input order, each
\* character written at most once and none invented, and it holds every
\* character read while the parser is open, the closer that empties the
\* stack included.
C35_SinkIsSubsequence ==
    \E K \in SUBSET (1..Len(fed)) :
        /\ ReadWhileOpen(fed) \subseteq K
        /\ sink = Restrict(fed, K)

\* C35 witness: text before and after a span was left out and the span was
\* written whole, its final closer included.
C35_Witness ==
    /\ ncalls > 0
    /\ \E i \in 2..Len(fed) : \E j \in i..(Len(fed) - 1) :
           /\ SingleSpanAt(fed, i, j)
           /\ sink = SubSeq(fed, i, j)
           /\ ReadWhileOpen(fed) = (i + 1)..j

====
